---- MODULE Spec2Model ----
(***************************************************************************)
(* Model of the clangd index decoder of src/riff.py (class ClangIndex).   *)
(*                                                                         *)
(* Bytes are naturals 0..255, byte strings are sequences of bytes, text   *)
(* is the sequence of its code points.  Python integers are unbounded;    *)
(* the value a varint decodes to can reach 2^35-1, so consume_var         *)
(* computes on vectors of ValBits bits (least significant bit first) and  *)
(* Val turns a vector into a natural where the program uses it as a count *)
(* or an index.                                                            *)
(***************************************************************************)
EXTENDS Integers, Sequences, FiniteSets, TLC

VARIABLES
    file,          \* the bytes of the file at index_path
    pc,            \* where parse_riff_file is
    fpos,          \* file.tell()
    riff_size,     \* the total-size field read from the header
    chunk_id,      \* tag bytes of the chunk being decoded
    data,          \* chunk_data of the chunk being decoded
    spos,          \* stream.tell() of the record decoder's BytesIO
    short,         \* some read of the chunk being decoded got fewer bytes than asked
    records,       \* the record decoder's local list
    string_table,  \* self.string_table: [built, strs]; built = FALSE is "no attribute"
    cindex,        \* the local dict cindex of parse_riff_file
    decoded,       \* history: [tag, recs] of every record chunk decoded, in file order
    err,           \* the exception that left parse_riff_file, "" when none
    result,        \* what ClangIndex(...) gave the caller: [returned, cindex]
    vin,           \* varint specification: the bytes in the stream
    vout           \* varint specification: [done, val, pos] of one consume_var call

vars == <<file, pc, fpos, riff_size, chunk_id, data, spos, short, records,
          string_table, cindex, decoded, err, result, vin, vout>>

Min(a, b) == IF a < b THEN a ELSE b

(***************************************************************************)
(* Bounds of the model.                                                    *)
(***************************************************************************)
MaxChunks == 2
MaxVarLen == 6

(***************************************************************************)
(* Bit vectors: the integers consume_var computes with.                    *)
(***************************************************************************)
ValBits == 5 * 7

more == 128

\* the bits of a byte-sized natural, as a vector of ValBits bits
ToBits(n) ==
    [j \in 1..ValBits |-> IF j <= 8 THEN (n \div (2 ^ (j - 1))) % 2 ELSE 0]

\* x << s
Shl(x, s) ==
    [j \in 1..ValBits |-> IF j > s THEN x[j - s] ELSE 0]

\* x | y
BitOr(x, y) ==
    [j \in 1..ValBits |-> IF x[j] = 1 \/ y[j] = 1 THEN 1 ELSE 0]

RECURSIVE ValFrom(_, _)
ValFrom(x, j) ==
    IF j = 0 THEN 0
    ELSE IF j > 1 /\ \A i \in j..ValBits : x[i] = 0 THEN ValFrom(x, j - 1)
    ELSE x[j] * (2 ^ (j - 1)) + ValFrom(x, j - 1)

\* the natural a bit vector stands for
Val(x) == ValFrom(x, ValBits)

(***************************************************************************)
(* The byte cursor: BytesIO.read, and the reads built on it.  A reader     *)
(* state r is [pos, short, err, out]: the position, whether some read came *)
(* back with fewer bytes than asked, the exception raised so far ("" when  *)
(* none), and the values read so far, the last one on top.  Every read     *)
(* takes a reader state and gives the next one.  After an exception        *)
(* nothing more is read.                                                   *)
(***************************************************************************)
Reader(p) == [pos |-> p, short |-> FALSE, err |-> "", out |-> <<>>]

Raise(r, e) == [r EXCEPT !.err = e]

\* the value read last
Top(r) == r.out[Len(r.out)]

\* the value read last, converted to v
Convert(r, v) == [r EXCEPT !.out[Len(r.out)] = v]

\* the k values read last become the one value v
Pack(r, k, v) == [r EXCEPT !.out = Append(SubSeq(r.out, 1, Len(r.out) - k), v)]

\* the value read i reads before the last one
Back(r, i) == r.out[Len(r.out) - i]

\* stream.read(n): the bytes that are there, at most n of them
read(d, r, n) ==
    [r EXCEPT !.pos = Min(r.pos + n, Len(d)),
              !.short = r.short \/ (r.pos + n > Len(d)),
              !.out = Append(r.out, SubSeq(d, r.pos + 1, Min(r.pos + n, Len(d))))]

\* int.from_bytes(bs, byteorder='little')
RECURSIVE from_bytes(_)
from_bytes(bs) ==
    IF bs = <<>> THEN 0 ELSE Head(bs) + 256 * from_bytes(Tail(bs))

\* bytes.hex(): two hexadecimal digits per byte
hex(bs) ==
    [i \in 1..(2 * Len(bs)) |->
        IF i % 2 = 1 THEN bs[(i + 1) \div 2] \div 16 ELSE bs[i \div 2] % 16]

\* .hex() of the bytes read
HexOf(r) == Convert(r, hex(Top(r)))

\* int.from_bytes of the bytes read
IntOf(r) == Convert(r, from_bytes(Top(r)))

consume_id(d, r) ==
    IF r.err # "" THEN r ELSE HexOf(read(d, r, 8))

consume8(d, r) ==
    IF r.err # "" THEN r ELSE IntOf(read(d, r, 1))

\* b & more
HasMore(b) == (b \div more) % 2 = 1

\* b & ~more
LowBits(b) == ((b \div (2 * more)) * (2 * more)) + (b % more)

\* Accumulate without the mask: val |= b << shift
AccumulateUnmasked(r, shift) ==
    Pack(r, 2, BitOr(Back(r, 1), Shl(ToBits(Top(r)), shift)))

\* val |= (b & ~more) << shift, with b on top of val
Accumulate(r, shift) ==
    Pack(r, 2, BitOr(Back(r, 1), Shl(ToBits(LowBits(Top(r))), shift)))

\* the while loop of consume_var (lines 67-70): val is on top, b is the byte
\* read last
RECURSIVE consume_var_loop(_, _, _, _)
RECURSIVE consume_var_next(_, _, _)
consume_var_loop(d, r, b, shift) ==
    IF HasMore(b) /\ shift < 32
    THEN consume_var_next(d, consume8(d, r), shift)
    ELSE r

\* lines 69-70 and the loop again, with the byte line 68 read on top
consume_var_next(d, r, shift) ==
    consume_var_loop(d, Accumulate(r, shift), Top(r), shift + 7)

\* lines 63-66 and the loop, with the first byte on top
consume_var_first(d, r) ==
    IF ~HasMore(Top(r)) THEN Convert(r, ToBits(Top(r)))
    ELSE consume_var_loop(d, Convert(r, ToBits(LowBits(Top(r)))), Top(r), 7)

consume_var(d, r) ==
    IF r.err # "" THEN r ELSE consume_var_first(d, consume8(d, r))

(***************************************************************************)
(* Text.  bytes.decode() is UTF-8: a byte below 0x80 is the code point of  *)
(* that value, and a byte that starts no valid sequence raises             *)
(* UnicodeDecodeError.  The inputs of this model hold ASCII bytes and the  *)
(* byte 0xFF only, so multi-byte sequences are not modelled.               *)
(***************************************************************************)
decode(bs) ==
    [ok |-> \A i \in 1..Len(bs) : bs[i] < more, s |-> bs]

\* str.split('\0'): the segments between the NUL code points
RECURSIVE split(_, _)
split(s, cur) ==
    IF s = <<>> THEN <<cur>>
    ELSE IF Head(s) = 0 THEN <<cur>> \o split(Tail(s), <<>>)
    ELSE split(Tail(s), Append(cur, Head(s)))

(***************************************************************************)
(* zlib.decompress is library code.  It is modelled on streams of one      *)
(* stored block: the header byte 0x78, a length byte n, n raw bytes.  A    *)
(* stream with another header or with fewer than n raw bytes raises        *)
(* zlib.error; bytes after the stream are ignored; bufsize sizes the first *)
(* output buffer and changes no result.                                    *)
(***************************************************************************)
ZHeader == 120

decompress(block, bufsize) ==
    IF Len(block) < 2 \/ block[1] # ZHeader \/ Len(block) < 2 + block[2]
    THEN [ok |-> FALSE, v |-> <<>>]
    ELSE [ok |-> TRUE, v |-> SubSeq(block, 3, 2 + block[2])]

NoTable == [built |-> FALSE, strs |-> <<>>]

\* lines 154-156 on the decompressed bytes z: [err, table]
parse_stri_table(z, t) ==
    IF ~z.ok THEN [err |-> "ZlibError", table |-> NoTable]
    ELSE IF ~t.ok THEN [err |-> "UnicodeDecodeError", table |-> NoTable]
    ELSE [err |-> "", table |-> [built |-> TRUE, strs |-> split(t.s, <<>>)]]

\* the string table decompress gives
parse_stri_of(z) == parse_stri_table(z, decode(z.v))

\* parse_stri: [err, table]
parse_stri(d) ==
    parse_stri_of(decompress(SubSeq(d, 5, Len(d)),
                             from_bytes(SubSeq(d, 1, Min(4, Len(d))))))

\* parse_meta
parse_meta(d) == from_bytes(d)

(***************************************************************************)
(* Fields of records.  st is self.string_table.                            *)
(***************************************************************************)
\* consume_var, as the natural it stands for
NatOf(r) == IF r.err # "" THEN r ELSE Convert(r, Val(Top(r)))

consume_nat(d, r) == NatOf(consume_var(d, r))

\* Lookup with an index past the end clamped to the last entry
LookupClamped(st, r) ==
    IF ~st.built THEN Raise(r, "AttributeError")
    ELSE IF Top(r) >= Len(st.strs) THEN Convert(r, st.strs[Len(st.strs)])
    ELSE Convert(r, st.strs[Top(r) + 1])

\* Lookup with a table that starts out empty instead of missing
LookupDefaulted(st, r) ==
    IF ~st.built THEN Convert(r, <<>>)
    ELSE IF Top(r) >= Len(st.strs) THEN Raise(r, "IndexError")
    ELSE Convert(r, st.strs[Top(r) + 1])

\* self.string_table[idx], idx on top
Lookup(st, r) ==
    IF ~st.built THEN Raise(r, "AttributeError")
    ELSE IF Top(r) >= Len(st.strs) THEN Raise(r, "IndexError")
    ELSE Convert(r, st.strs[Top(r) + 1])

consume_string(d, st, r) ==
    IF r.err # "" THEN r ELSE Lookup(st, consume_nat(d, r))

\* lines 82-85: the location dict of the five values read
LocationOf(r) ==
    IF r.err # "" THEN r
    ELSE Pack(r, 5, [file_uri |-> Back(r, 4),
                     start |-> [line |-> Back(r, 3), column |-> Back(r, 2)],
                     end |-> [line |-> Back(r, 1), column |-> Back(r, 0)]])

read_location(d, st, r) ==
    LocationOf(consume_nat(d, consume_nat(d, consume_nat(d, consume_nat(d,
        consume_string(d, st, r))))))

\* SymbolKind(b), b on top: ValueError on a value that is no member
SymbolKind(r) ==
    IF r.err = "" /\ Top(r) \notin 1..26 THEN Raise(r, "InvalidSymbolKind") ELSE r

\* SymbolLanguage(b), b on top
SymbolLanguage(r) ==
    IF r.err = "" /\ Top(r) \notin 0..3 THEN Raise(r, "InvalidSymbolLanguage")
    ELSE r

\* a counted loop starts: the count on top gives way to the empty list
ListOf(r) == IF r.err # "" THEN r ELSE Convert(r, <<>>)

\* the count on top, 0 after an exception
Count(r) == IF r.err # "" THEN 0 ELSE Top(r)

\* lines 109-111: the entry of the two values read joins the list
IncludeHeaderOf(r) ==
    IF r.err # "" THEN r
    ELSE Pack(r, 3, Append(Back(r, 2),
                           [header |-> Back(r, 1),
                            references |-> Back(r, 0) \div 4,
                            supported_directives |-> Back(r, 0) % 4]))

\* the include-header loop of read_symbol, n entries to go
RECURSIVE include_headers_loop(_, _, _, _)
include_headers_loop(d, st, r, n) ==
    IF n = 0 \/ r.err # "" THEN r
    ELSE include_headers_loop(d, st,
             IncludeHeaderOf(consume_nat(d, consume_string(d, st, r))), n - 1)

\* the loop with the count read
include_headers_of(d, st, r) == include_headers_loop(d, st, ListOf(r), Count(r))

\* include_headers_size and the loop it counts
read_include_headers(d, st, r) == include_headers_of(d, st, consume_nat(d, r))

\* lines 180-183: the reference of the three values read joins the list
ReferenceOf(r) ==
    IF r.err # "" THEN r
    ELSE Pack(r, 4, Append(Back(r, 3),
                           [kind |-> Back(r, 2), location |-> Back(r, 1),
                            container |-> Back(r, 0)]))

\* the reference loop of parse_refs, n entries to go
RECURSIVE references_loop(_, _, _, _)
references_loop(d, st, r, n) ==
    IF n = 0 \/ r.err # "" THEN r
    ELSE references_loop(d, st,
             ReferenceOf(consume_id(d, read_location(d, st, consume8(d, r)))),
             n - 1)

references_of(d, st, r) == references_loop(d, st, ListOf(r), Count(r))

\* num_refs and the loop it counts
read_references(d, st, r) == references_of(d, st, consume_nat(d, r))

\* the string read joins the list
StringOf(r) ==
    IF r.err # "" THEN r ELSE Pack(r, 2, Append(Back(r, 1), Back(r, 0)))

\* a counted loop of consume_string: the inner loops of parse_srcs and parse_cmdl
RECURSIVE strings_loop(_, _, _, _)
strings_loop(d, st, r, n) ==
    IF n = 0 \/ r.err # "" THEN r
    ELSE strings_loop(d, st, StringOf(consume_string(d, st, r)), n - 1)

strings_of(d, st, r) == strings_loop(d, st, ListOf(r), Count(r))

\* the count and the loop it counts
read_strings(d, st, r) == strings_of(d, st, consume_nat(d, r))

\* stream.read(8), the digest of a source record
read_digest(d, r) == IF r.err # "" THEN r ELSE read(d, r, 8)

\* one read of a record decoder, by the kind of field it reads
Field(d, st, r, kind) ==
    CASE kind = "id" -> consume_id(d, r)
      [] kind = "u8" -> consume8(d, r)
      [] kind = "SymbolKind" -> SymbolKind(consume8(d, r))
      [] kind = "SymbolLanguage" -> SymbolLanguage(consume8(d, r))
      [] kind = "var" -> consume_nat(d, r)
      [] kind = "string" -> consume_string(d, st, r)
      [] kind = "location" -> read_location(d, st, r)
      [] kind = "digest" -> read_digest(d, r)
      [] kind = "include_headers" -> read_include_headers(d, st, r)
      [] kind = "references" -> read_references(d, st, r)
      [] kind = "strings" -> read_strings(d, st, r)

\* the reads of one record, in the order the code makes them: fields is the
\* sequence of <<name, kind>> still to read
RECURSIVE ReadFields(_, _, _, _)
ReadFields(d, st, r, fields) ==
    IF fields = <<>> \/ r.err # "" THEN r
    ELSE ReadFields(d, st, Field(d, st, r, Head(fields)[2]), Tail(fields))

\* the dict of the values read, one per field
RecordOf(r, fields) ==
    IF r.err # "" THEN r
    ELSE [r EXCEPT !.out =
             <<[name \in {fields[i][1] : i \in 1..Len(fields)} |->
                   r.out[CHOOSE i \in 1..Len(fields) : fields[i][1] = name]]>>]

\* SymbolFields with the strings grouped five before the locations, three after
SymbolFieldsFiveThree ==
    << <<"id", "id">>, <<"kind", "SymbolKind">>, <<"lang", "SymbolLanguage">>,
       <<"name", "string">>, <<"scope", "string">>,
       <<"template_specialization_args", "string">>,
       <<"signature", "string">>, <<"completion_snippet_suffix", "string">>,
       <<"definition", "location">>, <<"canonical_declaration", "location">>,
       <<"references", "var">>, <<"flags", "u8">>,
       <<"documentation", "string">>, <<"return_type", "string">>,
       <<"type", "string">>, <<"include_headers", "include_headers">> >>

\* read_symbol reads these, in this order (lines 89-104)
SymbolFields ==
    << <<"id", "id">>, <<"kind", "SymbolKind">>, <<"lang", "SymbolLanguage">>,
       <<"name", "string">>, <<"scope", "string">>,
       <<"template_specialization_args", "string">>,
       <<"definition", "location">>, <<"canonical_declaration", "location">>,
       <<"references", "var">>, <<"flags", "u8">>,
       <<"signature", "string">>, <<"completion_snippet_suffix", "string">>,
       <<"documentation", "string">>, <<"return_type", "string">>,
       <<"type", "string">>, <<"include_headers", "include_headers">> >>

\* one iteration of the while loop of parse_refs reads these
RefFields == << <<"symbol_id", "id">>, <<"references", "references">> >>

\* one iteration of the while loop of parse_rela reads these
RelationFields ==
    << <<"subject", "u8">>, <<"predicate", "u8">>, <<"object", "u8">> >>

\* one iteration of the while loop of parse_srcs reads these
SourceFields ==
    << <<"flags", "u8">>, <<"uri", "string">>, <<"digest", "digest">>,
       <<"direct_includes", "strings">> >>

\* one iteration of the while loop of parse_cmdl reads these
CommandFields == << <<"directory", "string">>, <<"commands", "strings">> >>

\* one record: its reads, then its dict.  The reader state it gives holds
\* the record as its one value.
read_record(d, st, r, fields) == RecordOf(ReadFields(d, st, r, fields), fields)

read_symbol(d, st, r) == read_record(d, st, r, SymbolFields)

(***************************************************************************)
(* The chunk dispatcher.                                                   *)
(***************************************************************************)
Meta == <<109, 101, 116, 97>>
Stri == <<115, 116, 114, 105>>
Symb == <<115, 121, 109, 98>>
Refs == <<114, 101, 102, 115>>
Rela == <<114, 101, 108, 97>>
Srcs == <<115, 114, 99, 115>>
Cmdl == <<99, 109, 100, 108>>

RecordTags == {Symb, Refs, Rela, Srcs, Cmdl}
RecognizedTags == {Meta, Stri} \cup RecordTags

\* the key of cindex a recognized tag is stored under
Key(id) ==
    CASE id = Meta -> "meta" [] id = Stri -> "stri" [] id = Symb -> "symb"
      [] id = Refs -> "refs" [] id = Rela -> "rela" [] id = Srcs -> "srcs"
      [] id = Cmdl -> "cmdl"

\* line 274: chunk_data = file.read(chunk_size), chunk_size on top
PayloadOf(f, r) == read(f, r, Top(r))

\* the chunk read: its tag, its size, its payload, and where the file is now
ChunkOf(r) ==
    [chunk_id |-> Back(r, 2), chunk_size |-> Back(r, 1), chunk_data |-> Top(r),
     pos |-> r.pos]

\* parse_chunk at position p of the file: the tag, the size, and (line 274)
\* the payload file.read(chunk_size) gives
parse_chunk(f, p) ==
    ChunkOf(PayloadOf(f, IntOf(read(f, read(f, Reader(p), 4), 4))))

\* parse_data with a default case that decodes relations
parse_data_default_rela(id) ==
    IF id \in RecognizedTags THEN Key(id) ELSE "rela"

\* parse_data with the empty tag of an exhausted file taken for meta
parse_data_empty_meta(id) ==
    IF id \in RecognizedTags THEN Key(id)
    ELSE IF id = <<>> THEN "meta" ELSE "raise"

\* the match statement of parse_data: the decoder a tag is routed to, or raise
parse_data(id) ==
    IF id \in RecognizedTags THEN Key(id) ELSE "raise"

\* cindex = {}
EmptyIndex ==
    [keys |-> {}, meta |-> 0, stri |-> <<>>, symb |-> <<>>, refs |-> <<>>,
     rela |-> <<>>, srcs |-> <<>>, cmdl |-> <<>>]

\* cindex[key] = value
Store(ci, key, value) ==
    [ci EXCEPT !.keys = @ \cup {key}, ![key] = value]

NoResult == [returned |-> FALSE, cindex |-> EmptyIndex]

\* an exception leaves parse_riff_file and ClangIndex.__init__
Fail(e) ==
    /\ pc' = "failed"
    /\ err' = e
    /\ UNCHANGED <<file, riff_size, string_table, cindex, decoded, result, vin, vout>>

\* lines 265-268: the container header, unvalidated
ReadHeader ==
    /\ pc = "header"
    /\ LET hdr == read(file, read(file, read(file, Reader(0), 4), 4), 4)
       IN  /\ riff_size' = from_bytes(Back(hdr, 1))
           /\ fpos' = hdr.pos
    /\ pc' = "chunks"
    /\ UNCHANGED <<file, chunk_id, data, spos, short, records, string_table,
                   cindex, decoded, err, result, vin, vout>>

\* lines 271-276 for one chunk: parse_chunk, the payload read, the tag decoded,
\* parse_data.  meta and stri chunks are decoded here; a record chunk starts
\* its decoder's loop on a fresh BytesIO.
ParseChunk ==
    /\ pc = "chunks"
    /\ fpos < riff_size
    /\ LET ch == parse_chunk(file, fpos)
           id == decode(ch.chunk_id)
           route == IF id.ok THEN parse_data(id.s) ELSE "raise"
           table == parse_stri(ch.chunk_data)
       IN  /\ chunk_id' = ch.chunk_id
           /\ data' = ch.chunk_data
           /\ fpos' = ch.pos
           /\ spos' = 0
           /\ short' = FALSE
           /\ records' = <<>>
           /\ IF ~id.ok THEN Fail("UnicodeDecodeError")
              ELSE IF route = "raise" THEN Fail("UnknownChunkID")
              ELSE IF route = "meta"
              THEN /\ cindex' = Store(cindex, "meta", parse_meta(ch.chunk_data))
                   /\ UNCHANGED <<file, pc, riff_size, string_table, decoded,
                                  err, result, vin, vout>>
              ELSE IF route = "stri"
              THEN IF table.err # "" THEN Fail(table.err)
                   ELSE /\ string_table' = table.table
                        /\ cindex' = Store(cindex, "stri", table.table.strs)
                        /\ UNCHANGED <<file, pc, riff_size, decoded, err,
                                       result, vin, vout>>
              ELSE /\ pc' = route
                   /\ UNCHANGED <<file, riff_size, string_table, cindex,
                                  decoded, err, result, vin, vout>>

\* one iteration of a record decoder's while loop, rd the record it read
Iterate(rd) ==
    /\ short' = (short \/ rd.short)
    /\ IF rd.err # ""
       THEN /\ Fail(rd.err)
            /\ UNCHANGED <<fpos, chunk_id, data, spos, records>>
       ELSE /\ spos' = rd.pos
            /\ records' = Append(records, Top(rd))
            /\ UNCHANGED <<file, pc, fpos, riff_size, chunk_id, data,
                           string_table, cindex, decoded, err, result, vin, vout>>

parse_symb ==
    /\ pc = "symb"
    /\ spos < Len(data)
    /\ Iterate(read_symbol(data, string_table, Reader(spos)))

parse_refs ==
    /\ pc = "refs"
    /\ spos < Len(data)
    /\ Iterate(read_record(data, string_table, Reader(spos), RefFields))

parse_rela ==
    /\ pc = "rela"
    /\ spos < Len(data)
    /\ Iterate(read_record(data, string_table, Reader(spos), RelationFields))

parse_srcs ==
    /\ pc = "srcs"
    /\ spos < Len(data)
    /\ Iterate(read_record(data, string_table, Reader(spos), SourceFields))

parse_cmdl ==
    /\ pc = "cmdl"
    /\ spos < Len(data)
    /\ Iterate(read_record(data, string_table, Reader(spos), CommandFields))

\* the record decoder's loop ends: it returns its list, and line 276 stores
\* it under the chunk's tag
ReturnRecords ==
    /\ pc \in {"symb", "refs", "rela", "srcs", "cmdl"}
    /\ spos >= Len(data)
    /\ cindex' = Store(cindex, pc, records)
    /\ decoded' = Append(decoded, [tag |-> pc, recs |-> records])
    /\ pc' = "chunks"
    /\ UNCHANGED <<file, fpos, riff_size, chunk_id, data, spos, short, records,
                   string_table, err, result, vin, vout>>

\* the dispatcher's loop ends: parse_riff_file returns cindex, __init__ keeps it
Finish ==
    /\ pc = "chunks"
    /\ fpos >= riff_size
    /\ pc' = "done"
    /\ result' = [returned |-> TRUE, cindex |-> cindex]
    /\ UNCHANGED <<file, fpos, riff_size, chunk_id, data, spos, short, records,
                   string_table, cindex, decoded, err, vin, vout>>

(***************************************************************************)
(* Input files.  A file is the 12-byte header and up to MaxChunks chunks   *)
(* taken from Pool, which holds for every chunk kind a well-formed chunk   *)
(* and the same chunk with the last byte of its payload removed, and       *)
(* chunks that are malformed in the other ways the decoder can meet.  The  *)
(* strings of the tables are "a", "b" (table A) and "c", "" (table B).     *)
(***************************************************************************)
u32(n) == <<n % 256, n \div 256, 0, 0>>

Chunk(id, payload) == id \o u32(Len(payload)) \o payload

DropLast(bs) == SubSeq(bs, 1, Len(bs) - 1)

compress(plain) == <<ZHeader, Len(plain)>> \o plain

StriPayload(declared, plain) == u32(declared) \o compress(plain)

Id1 == <<1, 2, 3, 4, 5, 6, 7, 16>>
Id2 == <<17, 18, 19, 20, 21, 22, 23, 24>>

SymbolBytes(kind) ==
    Id1 \o <<kind, 1>> \o <<0, 1, 0>> \o <<0, 1, 1, 2, 3>> \o <<1, 1, 0, 1, 0>>
        \o <<129, 1>> \o <<131>> \o <<1, 1, 0, 1, 0>> \o <<1>> \o <<0, 6>>

RefBytes == Id1 \o <<1>> \o <<4>> \o <<0, 1, 1, 1, 2>> \o Id2

RelaBytes == <<1, 2, 3, 4, 5, 6>>

SourceBytes == <<1>> \o <<0>> \o Id2 \o <<1>> \o <<1>>

CommandBytes == <<0, 2, 1, 1>>

TableA == <<97, 0, 98>>
TableB == <<99, 0>>

Pool ==
    { Chunk(Meta, u32(1)),
      Chunk(Stri, StriPayload(Len(TableA), TableA)),
      Chunk(Stri, StriPayload(Len(TableB) + 3, TableB)),
      Chunk(Stri, DropLast(StriPayload(Len(TableA), TableA))),
      Chunk(Stri, StriPayload(1, <<255>>)),
      Chunk(Symb, SymbolBytes(5)),
      Chunk(Symb, DropLast(SymbolBytes(5))),
      Chunk(Symb, SymbolBytes(99)),
      Chunk(Refs, RefBytes),
      Chunk(Refs, DropLast(RefBytes)),
      Chunk(Rela, RelaBytes),
      Chunk(Rela, DropLast(RelaBytes)),
      Chunk(Srcs, SourceBytes),
      Chunk(Srcs, DropLast(SourceBytes)),
      Chunk(Cmdl, CommandBytes \o CommandBytes),
      Chunk(Cmdl, DropLast(CommandBytes)),
      Chunk(Cmdl, <<7, 0>>),
      Chunk(<<120, 120, 120, 120>>, <<1>>),
      Chunk(<<255, 255, 255, 255>>, <<1>>) }

\* the concatenations of at most n chunks of Pool
RECURSIVE Bodies(_)
Bodies(n) ==
    IF n = 0 THEN {<<>>}
    ELSE LET shorter == Bodies(n - 1)
         IN  shorter \cup {b \o c : b \in shorter, c \in Pool}

Riff == <<82, 73, 70, 70>>
CIdx == <<67, 73, 100, 120>>

\* The total-size field: "exact" counts the bytes after it, as the RIFF
\* convention has it, "over" is larger than the whole file.  cut removes
\* that many bytes from the end of the file.
MakeFile(body, size, cut) ==
    LET n == IF size = "exact" THEN 4 + Len(body) ELSE 16 + Len(body)
        f == Riff \o u32(n) \o CIdx \o body
    IN  SubSeq(f, 1, Len(f) - cut)

Files ==
    {MakeFile(b, "exact", 0) : b \in Bodies(MaxChunks)}
        \cup {MakeFile(b, "over", 0) : b \in Bodies(MaxChunks)}
        \cup {MakeFile(b, "exact", 1) : b \in Bodies(MaxChunks)}

NoVarint == [done |-> FALSE, val |-> ToBits(0), pos |-> 0]

Init ==
    /\ file \in Files
    /\ pc = "header"
    /\ fpos = 0
    /\ riff_size = 0
    /\ chunk_id = <<>>
    /\ data = <<>>
    /\ spos = 0
    /\ short = FALSE
    /\ records = <<>>
    /\ string_table = NoTable
    /\ cindex = EmptyIndex
    /\ decoded = <<>>
    /\ err = ""
    /\ result = NoResult
    /\ vin = <<>>
    /\ vout = NoVarint

Next ==
    \/ ReadHeader
    \/ ParseChunk
    \/ parse_symb
    \/ parse_refs
    \/ parse_rela
    \/ parse_srcs
    \/ parse_cmdl
    \/ ReturnRecords
    \/ Finish

Spec == Init /\ [][Next]_vars

(***************************************************************************)
(* The varint specification: one consume_var call on a stream holding vin. *)
(***************************************************************************)
VarBytes == {0, 1, 127, 128, 255}

RECURSIVE ByteSeqs(_)
ByteSeqs(n) ==
    IF n = 0 THEN {<<>>}
    ELSE LET shorter == ByteSeqs(n - 1)
         IN  shorter \cup {Append(s, b) : s \in {t \in shorter : Len(t) = n - 1},
                                          b \in VarBytes}

\* unsigned values below 2^32, as bit vectors: one bit set, or all bits below
\* one position set
Values ==
    {[j \in 1..ValBits |-> IF j = i THEN 1 ELSE 0] : i \in 1..32}
        \cup {[j \in 1..ValBits |-> IF j <= i THEN 1 ELSE 0] : i \in 0..32}

\* the 7-bit group g (from 0) of a value
Group(v, g) ==
    v[7 * g + 1] + 2 * v[7 * g + 2] + 4 * v[7 * g + 3] + 8 * v[7 * g + 4]
        + 16 * v[7 * g + 5] + 32 * v[7 * g + 6] + 64 * v[7 * g + 7]

\* the standard base-128 encoding: low group first, 0x80 set on all but the last
Encode(v) ==
    LET used == {g \in 0..4 : Group(v, g) # 0}
        n == IF used = {} THEN 1 ELSE 1 + CHOOSE g \in used : \A h \in used : h <= g
    IN  [i \in 1..n |-> IF i < n THEN Group(v, i - 1) + more ELSE Group(v, i - 1)]

Encodings == {Encode(v) : v \in Values}

VarInputs == ByteSeqs(MaxVarLen) \cup Encodings

InitVar ==
    /\ vin \in VarInputs
    /\ vout = NoVarint
    /\ file = <<>>
    /\ pc = "varint"
    /\ fpos = 0
    /\ riff_size = 0
    /\ chunk_id = <<>>
    /\ data = <<>>
    /\ spos = 0
    /\ short = FALSE
    /\ records = <<>>
    /\ string_table = NoTable
    /\ cindex = EmptyIndex
    /\ decoded = <<>>
    /\ err = ""
    /\ result = NoResult

\* what one call gave: the value returned and the position it left
VarintOf(r) == [done |-> TRUE, val |-> Top(r), pos |-> r.pos]

ConsumeVar ==
    /\ pc = "varint"
    /\ ~vout.done
    /\ vout' = VarintOf(consume_var(vin, Reader(0)))
    /\ UNCHANGED <<file, pc, fpos, riff_size, chunk_id, data, spos, short,
                   records, string_table, cindex, decoded, err, result, vin>>

NextVar == ConsumeVar

SpecVar == InitVar /\ [][NextVar]_vars

(***************************************************************************)
(* Properties.                                                             *)
(***************************************************************************)
RecordPcs == {"symb", "refs", "rela", "srcs", "cmdl"}

Terminated == pc \in {"done", "failed"}

\* the tag bytes the dispatcher reads next
NextTag == SubSeq(file, fpos + 1, Min(fpos + 4, Len(file)))

\* byte k (from 1) of the record the decoder's stream is at
B(k) == data[spos + k]

\* C1: when the reads of a record chunk ask for bytes past the end of the
\* chunk, the decode fails (stated here with any error at all).
C1_TruncatedRecordFails ==
    short => pc = "failed"

\* C2: a chunk whose tag is none of the seven recognized tags fails the whole
\* decode and the caller gets no result; when the tag bytes are text, the
\* failure is the dispatcher's "Unknown chunk ID".
C2_UnknownTagFails ==
    [][/\ (pc = "chunks" /\ fpos < riff_size /\ NextTag \notin RecognizedTags)
            => /\ pc' = "failed"
               /\ decode(NextTag).ok => err' = "UnknownChunkID"
       /\ pc' = "failed" => ~result'.returned]_vars

C2_Witness ==
    /\ pc = "failed"
    /\ err = "UnknownChunkID"
    /\ chunk_id = <<120, 120, 120, 120>>
    /\ cindex.keys # {}
    /\ ~result.returned

\* the number of bytes the claim of C3 says are consumed: the position of the
\* first byte with 0x80 clear, at most 5
ClaimedLength(bs) ==
    IF \E i \in 1..Min(5, Len(bs)) : bs[i] < 128
    THEN CHOOSE i \in 1..Min(5, Len(bs)) :
             bs[i] < 128 /\ \A j \in 1..(i - 1) : bs[j] >= 128
    ELSE 5

\* the OR of (b_i & 0x7F) << (7*i) over the first k bytes, bit by bit
ClaimedValue(bs, k) ==
    [j \in 1..ValBits |->
        IF (j - 1) \div 7 < k
        THEN ((bs[((j - 1) \div 7) + 1] % 128) \div (2 ^ ((j - 1) % 7))) % 2
        ELSE 0]

\* C3: consume_var consumes the bytes up to the first one without the
\* continuation bit, five at most, and returns the OR of their low seven
\* bits shifted by 7 per byte; the standard encoding of a value below 2^32
\* decodes to that value.  (Stated for streams that hold the bytes consumed.)
C3_VarintDecodes ==
    vout.done =>
        /\ Len(vin) >= ClaimedLength(vin) =>
              /\ vout.pos = ClaimedLength(vin)
              /\ vout.val = ClaimedValue(vin, ClaimedLength(vin))
        /\ vin \in Encodings =>
              \A v \in Values :
                  vin = Encode(v) => vout.val = v /\ vout.pos = Len(vin)

C3_Witness ==
    /\ vout.done
    /\ Len(vin) >= 6
    /\ \A i \in 1..5 : vin[i] >= 128
    /\ vout.pos = 5

\* the position of the k-th NUL of bs; 0 for k = 0, past the end when there
\* are fewer
NulAt(bs, k) ==
    IF k = 0 THEN 0
    ELSE IF Cardinality({p \in 1..Len(bs) : bs[p] = 0}) < k THEN Len(bs) + 1
    ELSE CHOOSE p \in 1..Len(bs) :
             bs[p] = 0 /\ Cardinality({q \in 1..p : bs[q] = 0}) = k

\* the i-th segment (from 0) of the null-split of bs
Segment(bs, i) == SubSeq(bs, NulAt(bs, i) + 1, NulAt(bs, i + 1) - 1)

\* the decompressed bytes of the stri payload d
Plain(d) == decompress(SubSeq(d, 5, Len(d)), 0).v

\* C4: with the table a stri chunk built, a string index below the number of
\* segments resolves to that segment of the null-split of the decompressed
\* bytes, and a larger index fails with IndexError.
C4_StringLookup ==
    [][string_table' # string_table =>
          LET plain == Plain(data')
              N == 1 + Cardinality({p \in 1..Len(plain) : plain[p] = 0})
          IN  \A i \in 0..(N + 2) :
                  LET r == consume_string(<<i>>, string_table', Reader(0))
                  IN  IF i < N
                      THEN r.err = "" /\ Top(r) = Segment(plain, i)
                      ELSE r.err = "IndexError"]_vars

C4_Witness ==
    /\ string_table.built
    /\ Len(string_table.strs) = 2
    /\ pc = "failed"
    /\ err = "IndexError"

\* the record the decoder is at has a string-index field its reads reach
ReachesString ==
    CASE pc = "symb" ->
             /\ Len(data) >= spos + 10
             /\ B(9) \in 1..26
             /\ B(10) \in 0..3
      [] pc = "refs" -> Len(data) >= spos + 9 /\ B(9) # 0
      [] pc \in {"srcs", "cmdl"} -> TRUE
      [] OTHER -> FALSE

\* C5: while no stri chunk has been decoded, a record whose decoding reaches
\* a string-index field fails the decode: nothing is stored for the chunk
\* and the caller gets no result.
C5_StringsNeedTable ==
    [][(pc \in RecordPcs /\ spos < Len(data) /\ ~string_table.built
            /\ ReachesString)
          => /\ pc' = "failed"
             /\ err' = "AttributeError"
             /\ cindex' = cindex
             /\ ~result'.returned]_vars

C5_Witness ==
    /\ pc = "failed"
    /\ err = "AttributeError"
    /\ ~string_table.built
    /\ chunk_id \in {Symb, Refs, Srcs, Cmdl}

\* C6: a stri chunk whose block decompresses to another number of bytes than
\* the declared size fails the decode and installs no table.
C6_SizeMismatchFails ==
    [][(/\ pc = "chunks"
        /\ fpos < riff_size
        /\ NextTag = Stri
        /\ decompress(SubSeq(parse_chunk(file, fpos).chunk_data, 5,
                             Len(parse_chunk(file, fpos).chunk_data)), 0).ok
        /\ Len(Plain(parse_chunk(file, fpos).chunk_data))
              # from_bytes(SubSeq(parse_chunk(file, fpos).chunk_data, 1, 4)))
          => pc' = "failed" /\ string_table' = string_table]_vars

\* the string index at byte k of the record, resolved
Str(k) == string_table.strs[B(k) + 1]

\* the Location whose five one-byte fields start at byte k of the record
Loc(k) ==
    [file_uri |-> Str(k),
     start |-> [line |-> B(k + 1), column |-> B(k + 2)],
     end |-> [line |-> B(k + 3), column |-> B(k + 4)]]

\* the width of the varint at byte k of the record (one or two bytes here)
Width(k) == IF B(k) < 128 THEN 1 ELSE 2

\* the value of the varint at byte k of the record
Varint(k) == IF B(k) < 128 THEN B(k) ELSE (B(k) % 128) + 128 * (B(k + 1) % 128)

\* a symbol record was read in full by this step
SymbolRead == pc = "symb" /\ Len(records') = Len(records) + 1 /\ ~short'

\* C7, as claimed: five string-index fields come before the two Locations
\* and three after the flag byte.
C7_FiveStringsFirst ==
    [][SymbolRead =>
          LET rec == records'[Len(records')]
              w == Width(26)
          IN  /\ rec.definition = Loc(16)
              /\ rec.canonical_declaration = Loc(21)
              /\ rec.references = Varint(26)
              /\ rec.flags = B(26 + w)]_vars

\* C7, amended: 8 id bytes, the kind byte, the language byte, three
\* string-index fields, two Locations, the varint reference count, the flag
\* byte, five string-index fields, then the varint-counted include headers,
\* each a string index and a varint of references*4 + directive mask.
C7_ThreeStringsFirst ==
    [][SymbolRead =>
          LET rec == records'[Len(records')]
              w == Width(24)
          IN  /\ rec.id = hex(SubSeq(data, spos + 1, spos + 8))
              /\ rec.kind = B(9)
              /\ rec.lang = B(10)
              /\ rec.name = Str(11)
              /\ rec.scope = Str(12)
              /\ rec.template_specialization_args = Str(13)
              /\ rec.definition = Loc(14)
              /\ rec.canonical_declaration = Loc(19)
              /\ rec.references = Varint(24)
              /\ rec.flags = B(24 + w)
              /\ rec.signature = Str(25 + w)
              /\ rec.completion_snippet_suffix = Str(26 + w)
              /\ rec.documentation = Str(27 + w)
              /\ rec.return_type = Str(28 + w)
              /\ rec.type = Str(29 + w)
              /\ Len(rec.include_headers) = B(30 + w)
              /\ \A j \in 1..Len(rec.include_headers) :
                    /\ rec.include_headers[j].header = Str(29 + w + 2 * j)
                    /\ 4 * rec.include_headers[j].references
                          + rec.include_headers[j].supported_directives
                          = B(30 + w + 2 * j)
                    /\ rec.include_headers[j].supported_directives \in 0..3
              /\ spos' = spos + 30 + w + 2 * Len(rec.include_headers)]_vars

C7_Witness ==
    /\ pc = "symb"
    /\ Len(records) = 1
    /\ ~short
    /\ records[1].references = 129
    /\ records[1].include_headers # <<>>

\* C8: once a stri chunk has built the string table, it never changes.
C8_TableNeverChanges ==
    [][string_table.built => string_table' = string_table]_vars

\* the records of every decoded chunk with tag t, in file order
RECURSIVE RecordsOf(_, _)
RecordsOf(hist, t) ==
    IF hist = <<>> THEN <<>>
    ELSE (IF Head(hist).tag = t THEN Head(hist).recs ELSE <<>>)
             \o RecordsOf(Tail(hist), t)

\* C9: after a successful decode the result holds, under each record tag,
\* the records of every chunk with that tag that was decoded.
C9_ResultAccumulates ==
    (pc = "done" /\ result.returned) =>
        \A t \in RecordPcs : result.cindex[t] = RecordsOf(decoded, t)

\* an iteration of the dispatcher's loop or of a record decoder's loop moves
\* its cursor forward by at least one byte or fails
Progress ==
    /\ (pc = "chunks" /\ pc' \notin {"done", "failed"}) => fpos' > fpos
    /\ (pc \in RecordPcs /\ pc' \notin {"chunks", "failed"}) => spos' > spos

\* a variant of the decode: the bytes of the file still ahead of the
\* dispatcher, and within them the bytes of the chunk still ahead of the
\* record decoder
Variant ==
    CASE pc = "header" -> (Len(file) + 2) * (Len(file) + 3)
      [] pc = "chunks" -> (Len(file) - fpos + 1) * (Len(file) + 3)
      [] pc \in RecordPcs ->
             (Len(file) - fpos + 1) * (Len(file) + 3) + (Len(data) - spos) + 1
      [] OTHER -> 0

\* C10: the decode terminates, with a result or an error, whatever the
\* total-size field says: every loop iteration moves its cursor forward or
\* fails, also at the end of a file shorter than its total-size field, and
\* every step of the decode lowers a variant that is never negative.
C10_Terminates ==
    [][/\ Progress
       /\ Variant >= 0
       /\ Variant' >= 0
       /\ Variant' < Variant]_vars

C10_Witness ==
    /\ pc = "failed"
    /\ err = "UnknownChunkID"
    /\ chunk_id = <<>>
    /\ fpos = Len(file)
    /\ riff_size > Len(file)
    /\ cindex.keys # {}

====
